---- MODULE Spec2Model ----
(***************************************************************************)
(* Channel discovery, store sync and filtered, paginated reads of the      *)
(* route handler src/app/api/youtube/channel/route.ts (latest revision:    *)
(* src/unnamed/part_001).                                                  *)
(*                                                                         *)
(* Optional values (undefined / null in the source) are sequences of       *)
(* length at most one: None is <<>>, Some(v) is <<v>>.                      *)
(***************************************************************************)
EXTENDS Integers, Sequences, FiniteSets, TLC

VARIABLES
    resultCap,      \* cap on the accumulator of one discovery run
    chunkSize,      \* largest page size asked of the search endpoint
    pc,             \* position of the discovery run
    collected,      \* accumulator: sequence of YouTubeChannel records
    seen,           \* set of identifiers taken as candidates so far
    nextPageToken,  \* continuation cursor (optional)
    searchReq,      \* the outstanding search request (maxResults, pageToken)
    candidateIds,   \* candidates of the page whose details are awaited
    pageToken,      \* searchData.nextPageToken of the page being processed
    result,         \* what fetchYouTubeChannels returned
    failure,        \* the error thrown by fetchYouTubeChannels (optional)
    searchCalls,    \* number of search requests issued
    detailCalls,    \* number of details requests issued
    appeared,       \* identifiers in order of first appearance in search responses
    lookedUp,       \* identifiers sent to the details endpoint, in order
    dropped,        \* candidates that their details response did not contain
    notes,          \* what the endpoints did in this run (for witnesses)
    pageSize,       \* page size of the Reader
    channels,       \* store, identity projection: id -> row of table channels
    stats,          \* store, statistics projection: id -> row of table channel_stats
    req,            \* the request being handled (optional)
    minSubscribers, \* the handler's local minSubscribers
    maxSubscribers, \* the handler's local maxSubscribers
    page,           \* the handler's local page
    readerArgs,     \* arguments of the outstanding or last Reader call (optional)
    readResult,     \* what the last Reader call returned or threw (optional)
    storageFiltered,\* whether the storage layer applied the title exclusion in that call
    storageCalls,   \* number of storage calls (queries, upserts) issued for the request
    response,       \* the HTTP response of the request (optional)
    source,         \* number of unique candidates the external source holds
    peer,           \* an overlapping refresh request: its position and fetched records
    writes,         \* the rows upserted since the store was last at rest, in order
    storeBefore     \* the store when it was last at rest

fetchVars == <<resultCap, chunkSize, pc, collected, seen, nextPageToken, searchReq,
               candidateIds, pageToken, result, failure, searchCalls, detailCalls,
               appeared, lookedUp, dropped, notes>>

storeVars == <<channels, stats>>
readVars == <<pageSize, readerArgs, readResult, storageFiltered>>
reqVars == <<req, minSubscribers, maxSubscribers, page, response>>

envVars == <<source, peer, writes, storeBefore>>

vars == <<fetchVars, storeVars, readVars, reqVars, storageCalls, envVars>>

----------------------------------------------------------------------------
(* Program constants *)

MAX_RESULTS == 100
PAGE_SIZE == 30
CHUNK_SIZE == 50
MAX_ALLOWED_SUBSCRIBERS == 10000

(* Bounds of the model *)

MaxId == 4          \* channel identifiers are 1..MaxId
MaxItems == 3       \* longest search or details response
MaxCalls == 3       \* the search source is exhausted after this many pages
MaxCap == 2         \* scaled-down result caps 1..MaxCap, beside MAX_RESULTS
MaxStored == 3      \* the stores of the Reader hold channels 1..n, n <= MaxStored
MaxU == 3           \* the external source holds 0..MaxU candidates, or the scenario's 120
MaxPage == 3        \* pages asked of the Reader

Ids == 1..MaxId

None == <<>>
Some(v) == <<v>>
IsSome(o) == o # <<>>
Val(o) == o[1]

Min(a, b) == IF a <= b THEN a ELSE b

RECURSIVE SeqsUpTo(_, _)
(* All sequences over S of length at most n *)
SeqsUpTo(S, n) ==
    IF n = 0 THEN {<<>>}
    ELSE LET shorter == SeqsUpTo(S, n - 1)
         IN  shorter \cup {Append(s, x) : s \in {t \in shorter : Len(t) = n - 1}, x \in S}

Range(s) == {s[i] : i \in 1..Len(s)}

IdsOf(records) == [i \in 1..Len(records) |-> records[i].id]

NoDuplicates(s) == \A i, j \in 1..Len(s) : i # j => s[i] # s[j]

(* Position of the first occurrence of x in s, 0 when absent *)
IndexOf(s, x) ==
    IF x \in Range(s) THEN CHOOSE i \in 1..Len(s) : s[i] = x /\ \A j \in 1..(i - 1) : s[j] # x
    ELSE 0

(* s lists its elements in the order in which they occur in t *)
InOrderOf(s, t) ==
    /\ Range(s) \subseteq Range(t)
    /\ \A i, j \in 1..Len(s) : i < j => IndexOf(t, s[i]) < IndexOf(t, s[j])

----------------------------------------------------------------------------
(* Values of the external responses *)

(* Strings are sequences of pieces of text; concatenation is \o.
   Channel identifiers are strings in the source; identifier n stands for the
   string IdText(n), and identifiers are ordered as these strings are. *)
IdText(n) == <<"UC", ToString(n)>>

(* A raw statistics value of a details response: absent (null or undefined),
   a number or numeric string, the empty string, or any other text. *)
RawAbsent == [kind |-> "absent", n |-> 0]
RawNum(n) == [kind |-> "num", n |-> n]
RawBlank == [kind |-> "blank", n |-> 0]
RawText == [kind |-> "text", n |-> 0]

(* numberOrUndefined: null and undefined give undefined; Number("") is 0;
   a value that is not a finite number gives undefined. *)
numberOrUndefined(value) ==
    CASE value.kind = "absent" -> None
      [] value.kind = "num" -> Some(value.n)
      [] value.kind = "blank" -> Some(0)
      [] OTHER -> None

(* a ?? b *)
Coalesce(a, b) == IF IsSome(a) THEN a ELSE b

(* The i-th item of a details response for identifier idOpt. The change marker
   (etag) of an item is its position in the response, so that two items of one
   response with the same identifier differ. *)
DetailItem(idOpt, i) ==
    LET n == IF IsSome(idOpt) THEN Val(idOpt) ELSE 0
    IN  [id |-> idOpt,
         etag |-> Some(i),
         title |-> IF n % 2 = 1 THEN Some(<<"title", ToString(n)>>) ELSE None,
         customUrl |-> IF n % 3 = 0 THEN Some(<<"@", "handle", ToString(n)>>) ELSE None,
         thumbHigh |-> None,
         thumbMedium |-> IF n % 2 = 0 THEN Some(<<"medium", ToString(n)>>) ELSE None,
         thumbDefault |-> Some(<<"default", ToString(n)>>),
         country |-> IF n % 2 = 1 THEN Some("JP") ELSE None,
         hiddenSubscriberCount |-> (n % 3 = 0),
         subscriberCount |-> IF n % 4 = 0 THEN RawText ELSE RawNum(1000 * n),
         viewCount |-> IF n % 2 = 0 THEN RawBlank ELSE RawNum(10 * n),
         videoCount |-> IF n % 2 = 0 THEN RawAbsent ELSE RawNum(n)]

DetailItems(idOpts) == [i \in 1..Len(idOpts) |-> DetailItem(idOpts[i], i)]

----------------------------------------------------------------------------
(* fetchYouTubeChannels: the steps between two awaits *)

RECURSIVE CollectFrom(_, _, _, _, _)
CollectFrom(items, i, cands, seenSet, remaining) ==
    IF i > Len(items) THEN [candidateIds |-> cands, seen |-> seenSet]
    ELSE IF ~IsSome(items[i]) \/ Val(items[i]) \in seenSet
         THEN CollectFrom(items, i + 1, cands, seenSet, remaining)
         ELSE IF Len(cands) + 1 >= remaining
              THEN [candidateIds |-> Append(cands, Val(items[i])),
                    seen |-> seenSet \cup {Val(items[i])}]
              ELSE CollectFrom(items, i + 1, Append(cands, Val(items[i])),
                               seenSet \cup {Val(items[i])}, remaining)

RECURSIVE CollectNoBreak(_, _, _, _, _)
(* Mutant: the loop over the search items without its break at `remaining` *)
CollectNoBreak(items, i, cands, seenSet, remaining) ==
    IF i > Len(items) THEN [candidateIds |-> cands, seen |-> seenSet]
    ELSE IF ~IsSome(items[i]) \/ Val(items[i]) \in seenSet
         THEN CollectNoBreak(items, i + 1, cands, seenSet, remaining)
         ELSE CollectNoBreak(items, i + 1, Append(cands, Val(items[i])),
                             seenSet \cup {Val(items[i])}, remaining)

RECURSIVE CollectNoSeenAdd(_, _, _, _, _)
(* Mutant: the loop over the search items without seen.add(id) *)
CollectNoSeenAdd(items, i, cands, seenSet, remaining) ==
    IF i > Len(items) THEN [candidateIds |-> cands, seen |-> seenSet]
    ELSE IF ~IsSome(items[i]) \/ Val(items[i]) \in seenSet
         THEN CollectNoSeenAdd(items, i + 1, cands, seenSet, remaining)
         ELSE IF Len(cands) + 1 >= remaining
              THEN [candidateIds |-> Append(cands, Val(items[i])), seen |-> seenSet]
              ELSE CollectNoSeenAdd(items, i + 1, Append(cands, Val(items[i])),
                                    seenSet, remaining)

RECURSIVE CollectNoSeenCheck(_, _, _, _, _)
(* Mutant: the loop over the search items without the test seen.has(id) *)
CollectNoSeenCheck(items, i, cands, seenSet, remaining) ==
    IF i > Len(items) THEN [candidateIds |-> cands, seen |-> seenSet]
    ELSE IF ~IsSome(items[i])
         THEN CollectNoSeenCheck(items, i + 1, cands, seenSet, remaining)
         ELSE IF Len(cands) + 1 >= remaining
              THEN [candidateIds |-> Append(cands, Val(items[i])),
                    seen |-> seenSet \cup {Val(items[i])}]
              ELSE CollectNoSeenCheck(items, i + 1, Append(cands, Val(items[i])),
                                      seenSet \cup {Val(items[i])}, remaining)

CollectCandidatesNoSeenCheck(items, seenSet, remaining) ==
    CollectNoSeenCheck(items, 1, <<>>, seenSet, remaining)

CollectCandidatesNoBreak(items, seenSet, remaining) ==
    CollectNoBreak(items, 1, <<>>, seenSet, remaining)

CollectCandidatesNoSeenAdd(items, seenSet, remaining) ==
    CollectNoSeenAdd(items, 1, <<>>, seenSet, remaining)

(* The candidates of one search page (lines 177-184): the identifiers of the
   items, in item order, that are present and not seen yet, up to `remaining`
   of them; each is added to the seen set. *)
CollectCandidates(items, seenSet, remaining) ==
    CollectFrom(items, 1, <<>>, seenSet, remaining)

(* Mutant: the hidden-subscriber flag is not looked at *)
MapDetailItemIgnoresHidden(item) ==
    [id |-> Val(item.id),
     title |-> Val(Coalesce(item.title, Some(IdText(Val(item.id))))),
     customUrl |-> item.customUrl,
     thumbnailUrl |-> Coalesce(item.thumbHigh, Coalesce(item.thumbMedium, item.thumbDefault)),
     country |-> item.country,
     subscriberCount |-> numberOrUndefined(item.subscriberCount),
     viewCount |-> numberOrUndefined(item.viewCount),
     videoCount |-> numberOrUndefined(item.videoCount),
     etag |-> item.etag]

(* One detail item as a YouTubeChannel record (lines 208-228) *)
MapDetailItem(item) ==
    [id |-> Val(item.id),
     title |-> Val(Coalesce(item.title, Some(IdText(Val(item.id))))),
     customUrl |-> item.customUrl,
     thumbnailUrl |-> Coalesce(item.thumbHigh, Coalesce(item.thumbMedium, item.thumbDefault)),
     country |-> item.country,
     subscriberCount |-> IF item.hiddenSubscriberCount THEN None
                         ELSE numberOrUndefined(item.subscriberCount),
     viewCount |-> numberOrUndefined(item.viewCount),
     videoCount |-> numberOrUndefined(item.videoCount),
     etag |-> item.etag]

LastIndexWithId(items, id) ==
    CHOOSE i \in 1..Len(items) :
        /\ items[i].id = Some(id)
        /\ \A j \in (i + 1)..Len(items) : items[j].id # Some(id)

(* detailMap (lines 204-229): items without id are skipped, a later item with
   the same id replaces an earlier one. *)
BuildDetailMap(items) ==
    [id \in {Val(items[i].id) : i \in {k \in 1..Len(items) : IsSome(items[k].id)}}
        |-> MapDetailItem(items[LastIndexWithId(items, id)])]

RECURSIVE AppendFrom(_, _, _, _)
AppendFrom(acc, cands, i, detailMap) ==
    IF i > Len(cands) THEN acc
    ELSE IF cands[i] \in DOMAIN detailMap
         THEN AppendFrom(Append(acc, detailMap[cands[i]]), cands, i + 1, detailMap)
         ELSE AppendFrom(acc, cands, i + 1, detailMap)

(* Mutant: append the details in the order of the details response *)
AppendInDetailOrder(acc, cands, items) ==
    LET RECURSIVE Go(_, _)
        Go(a, i) ==
            IF i > Len(items) THEN a
            ELSE IF IsSome(items[i].id) /\ Val(items[i].id) \in Range(cands)
                    /\ Val(items[i].id) \notin Range(IdsOf(a))
                 THEN Go(Append(a, MapDetailItem(items[i])), i + 1)
                 ELSE Go(a, i + 1)
    IN  Go(acc, 1)

(* The accumulator after one page (lines 231-235): the candidates found in the
   details response, in candidate order. *)
AppendCollected(acc, cands, items) ==
    AppendFrom(acc, cands, 1, BuildDetailMap(items))

(* collected.slice(0, MAX_RESULTS) *)
Slice(acc, cap) == SubSeq(acc, 1, Min(Len(acc), cap))

----------------------------------------------------------------------------
(* Query parameters and their validation *)

(* A raw query parameter: absent (null), blank (empty or white space), text
   that Number() does not turn into a finite number, or a number. A number is
   held as twice its value, so that halves can be written: Num(2001) is
   1000.5. *)
Absent == [kind |-> "absent", twice |-> 0]
Blank == [kind |-> "blank", twice |-> 0]
Text == [kind |-> "text", twice |-> 0]
Num(twice) == [kind |-> "num", twice |-> twice]

(* parseBound (lines 80-87); ok = FALSE is the thrown Error *)
parseBound(value, fallback) ==
    IF value.kind \in {"absent", "blank"} THEN [ok |-> TRUE, n |-> fallback]
    ELSE IF value.kind = "text" \/ value.twice < 0 THEN [ok |-> FALSE, n |-> 0]
    ELSE [ok |-> TRUE, n |-> value.twice \div 2]

(* Mutant: parsePage without its test num < 1 *)
parsePageNoClamp(value) ==
    IF value.kind \in {"absent", "blank"} THEN 1
    ELSE IF value.kind = "text" THEN 1
    ELSE value.twice \div 2

(* parsePage (lines 89-94) *)
parsePage(value) ==
    IF value.kind \in {"absent", "blank"} THEN 1
    ELSE IF value.kind = "text" \/ value.twice < 2 THEN 1
    ELSE value.twice \div 2

NoMessage == [text |-> "", status |-> 0, detail |-> ""]
Message(text) == [text |-> text, status |-> 0, detail |-> ""]
UpstreamMessage(text, status) == [text |-> text, status |-> status, detail |-> "body"]

ErrorResponse(status, message) ==
    [status |-> status, error |-> message, refreshed |-> None, items |-> <<>>,
     page |-> 0, pageSize |-> 0, total |-> 0]

(* Mutant: the ceiling is not enforced (neither the test of minSubscribers nor
   the clamp of maxSubscribers) *)
ValidateBoundsNoCeiling(rawMin, rawMax) ==
    LET pmin == parseBound(rawMin, 0)
        pmax == parseBound(rawMax, MAX_ALLOWED_SUBSCRIBERS)
    IN  IF ~pmin.ok \/ ~pmax.ok
        THEN [ok |-> FALSE, min |-> IF pmin.ok THEN pmin.n ELSE 0,
              max |-> MAX_ALLOWED_SUBSCRIBERS,
              error |-> Message("Invalid numeric parameter")]
        ELSE IF pmin.n > pmax.n
        THEN [ok |-> FALSE, min |-> pmin.n, max |-> pmax.n,
              error |-> Message("minSubscribers must be less than or equal to maxSubscribers")]
        ELSE [ok |-> TRUE, min |-> pmin.n, max |-> pmax.n, error |-> NoMessage]

(* Mutant: maxSubscribers above the ceiling is rejected instead of clamped *)
ValidateBoundsRejectMax(rawMin, rawMax) ==
    LET pmin == parseBound(rawMin, 0)
        pmax == parseBound(rawMax, MAX_ALLOWED_SUBSCRIBERS)
    IN  IF ~pmin.ok \/ ~pmax.ok
        THEN [ok |-> FALSE, min |-> IF pmin.ok THEN pmin.n ELSE 0,
              max |-> MAX_ALLOWED_SUBSCRIBERS,
              error |-> Message("Invalid numeric parameter")]
        ELSE IF pmin.n > MAX_ALLOWED_SUBSCRIBERS \/ pmax.n > MAX_ALLOWED_SUBSCRIBERS
        THEN [ok |-> FALSE, min |-> pmin.n, max |-> pmax.n,
              error |-> Message("minSubscribers must be less than or equal to 10000")]
        ELSE IF pmin.n > pmax.n
        THEN [ok |-> FALSE, min |-> pmin.n, max |-> pmax.n,
              error |-> Message("minSubscribers must be less than or equal to maxSubscribers")]
        ELSE [ok |-> TRUE, min |-> pmin.n, max |-> pmax.n, error |-> NoMessage]

(* The bounds of a request (GET lines 246-274, POST lines 301-329): the parsed
   and clamped minSubscribers and maxSubscribers, or the message of the 400
   response. *)
ValidateBounds(rawMin, rawMax) ==
    LET pmin == parseBound(rawMin, 0)
        pmax == parseBound(rawMax, MAX_ALLOWED_SUBSCRIBERS)
        clamped == IF pmax.n > MAX_ALLOWED_SUBSCRIBERS THEN MAX_ALLOWED_SUBSCRIBERS ELSE pmax.n
    IN  IF ~pmin.ok \/ ~pmax.ok
        THEN [ok |-> FALSE, min |-> IF pmin.ok THEN pmin.n ELSE 0,
              max |-> MAX_ALLOWED_SUBSCRIBERS,
              error |-> Message("Invalid numeric parameter")]
        ELSE IF pmin.n > MAX_ALLOWED_SUBSCRIBERS
        THEN [ok |-> FALSE, min |-> pmin.n, max |-> pmax.n,
              error |-> Message("minSubscribers must be less than or equal to 10000")]
        ELSE IF pmin.n > clamped
        THEN [ok |-> FALSE, min |-> pmin.n, max |-> clamped,
              error |-> Message("minSubscribers must be less than or equal to maxSubscribers")]
        ELSE [ok |-> TRUE, min |-> pmin.n, max |-> clamped, error |-> NoMessage]

----------------------------------------------------------------------------
(* The store and the Reader *)

(* The title contains the excluded text, the four characters U+5207 U+308A
   U+629C U+304D ("kirinuki", a clip channel), written "KIRINUKI" here; it has
   no letters with case, so that ilike matches it as like does. *)
TitleIsClip(title) == \E i \in 1..Len(title) : title[i] = "KIRINUKI"

(* .not("channels.title", "ilike", ..) (line 124) lets the row through: the
   title of a stored row is Some(text) or None for null, and the negation of a
   match with null is null, which selects nothing. *)
TitlePasses(title) == IsSome(title) /\ ~TitleIsClip(Val(title))

(* The pieces of text that /^https?:\/\//i matches (line 70): "http://" and
   "https://" with each letter in either case *)
HttpPrefixes ==
    {"http://", "httP://", "htTp://", "htTP://", "hTtp://", "hTtP://", "hTTp://",
     "hTTP://", "Http://", "HttP://", "HtTp://", "HtTP://", "HTtp://", "HTtP://",
     "HTTp://", "HTTP://"}

HttpsPrefixes ==
    {"https://", "httpS://", "httPs://", "httPS://", "htTps://", "htTpS://",
     "htTPs://", "htTPS://", "hTtps://", "hTtpS://", "hTtPs://", "hTtPS://",
     "hTTps://", "hTTpS://", "hTTPs://", "hTTPS://", "Https://", "HttpS://",
     "HttPs://", "HttPS://", "HtTps://", "HtTpS://", "HtTPs://", "HtTPS://",
     "HTtps://", "HTtpS://", "HTtPs://", "HTtPS://", "HTTps://", "HTTpS://",
     "HTTPs://", "HTTPS://"}

(* buildChannelUrl (lines 66-78); `channel` is the embedded channels row or
   None for null, and identifier 0 stands for the empty string. The result
   None is undefined. *)
buildChannelUrl(channel) ==
    IF ~IsSome(channel) THEN None
    ELSE LET c == Val(channel)
         IN  IF IsSome(c.custom_url) /\ Val(c.custom_url) # <<>>
             THEN LET url == Val(c.custom_url)
                  IN  IF url[1] \in HttpPrefixes \cup HttpsPrefixes THEN Some(url)
                      ELSE IF url[1] = "@" THEN Some(<<"https://www.youtube.com/">> \o url)
                      ELSE Some(<<"https://www.youtube.com/c/">> \o url)
             ELSE IF c.id # 0
                  THEN Some(<<"https://www.youtube.com/channel/">> \o IdText(c.id))
                  ELSE None

RECURSIVE Digits(_)
(* The decimal digits of n, as ToString(n) writes them *)
Digits(n) == IF n < 10 THEN <<n>> ELSE Append(Digits(n \div 10), n % 10)

RECURSIVE TextLeq(_, _)
(* s is before t, or equal to it, in the order of text: character by
   character, a text before every text it starts *)
TextLeq(s, t) ==
    IF s = <<>> THEN TRUE
    ELSE IF t = <<>> THEN FALSE
    ELSE IF s[1] # t[1] THEN s[1] < t[1]
    ELSE TextLeq(Tail(s), Tail(t))

(* IdText(a) is before IdText(b) in the order of text, or a = b: channel_id is
   a text column, so "UC10" is before "UC2" *)
IdLeq(a, b) == TextLeq(Digits(a), Digits(b))

RECURSIVE Ascending(_)
(* The identifiers of a finite set in ascending order of their text *)
Ascending(S) ==
    IF S = {} THEN <<>>
    ELSE LET least == CHOOSE x \in S : \A y \in S : IdLeq(x, y)
         IN  <<least>> \o Ascending(S \ {least})

(* Mutant: the query without .lte("subscriber_count", maxSubscribers) *)
StorageQueryNoUpperBound(ch, st, min, max, offset, limit, filtered) ==
    LET matching == {id \in DOMAIN st \cap DOMAIN ch :
                        /\ IsSome(st[id].subscriber_count)
                        /\ Val(st[id].subscriber_count) >= min
                        /\ filtered => TitlePasses(ch[id].title)}
        ordered == Ascending(matching)
    IN  [data |-> Some([i \in 1..(Min(offset + limit, Len(ordered)) - Min(offset, Len(ordered)))
                      |-> [subscriber_count |-> st[ordered[offset + i]].subscriber_count,
                           view_count |-> st[ordered[offset + i]].view_count,
                           video_count |-> st[ordered[offset + i]].video_count,
                           channels |-> Some(ch[ordered[offset + i]])]]),
         count |-> Some(Cardinality(matching))]

(* The query of the Reader as the storage layer answers it (lines 105-126):
   channel_stats inner-joined with channels; subscriber_count >= min and <= max
   (a null count satisfies neither); title not like the excluded text, when
   the storage layer applies that filter (`filtered`); ascending by channel
   id; rows offset .. offset + limit - 1; with the exact count of all matching
   rows. `data` and `count` are Some(..) in the answer (None is null), and so
   is the embedded channels row of every row of an inner join. *)
StorageQuery(ch, st, min, max, offset, limit, filtered) ==
    LET matching == {id \in DOMAIN st \cap DOMAIN ch :
                        /\ IsSome(st[id].subscriber_count)
                        /\ Val(st[id].subscriber_count) >= min
                        /\ Val(st[id].subscriber_count) <= max
                        /\ filtered => TitlePasses(ch[id].title)}
        ordered == Ascending(matching)
    IN  [data |-> Some([i \in 1..(Min(offset + limit, Len(ordered)) - Min(offset, Len(ordered)))
                      |-> [subscriber_count |-> st[ordered[offset + i]].subscriber_count,
                           view_count |-> st[ordered[offset + i]].view_count,
                           video_count |-> st[ordered[offset + i]].video_count,
                           channels |-> Some(ch[ordered[offset + i]])]]),
         count |-> Some(Cardinality(matching))]

(* One retrieved row as a Channel (lines 133-147), or None for the null that
   a row without channels row or with an empty channel id gives (line 135;
   identifier 0 stands for the empty string); a null title gives the id as
   title (line 139). *)
MapRow(row) ==
    IF ~IsSome(row.channels) \/ Val(row.channels).id = 0 THEN None
    ELSE LET channel == Val(row.channels)
         IN  Some([id |-> channel.id,
                   title |-> Val(Coalesce(channel.title, Some(IdText(channel.id)))),
                   channelUrl |-> buildChannelUrl(row.channels),
                   customUrl |-> channel.custom_url,
                   thumbnailUrl |-> channel.thumbnail_url,
                   subscriberCount |-> row.subscriber_count,
                   viewCount |-> row.view_count,
                   videoCount |-> row.video_count])

(* The items of an answer of the storage layer (lines 132-148): data ?? [],
   each row mapped, the nulls filtered out *)
ItemsOf(data) ==
    LET rows == Val(Coalesce(data, Some(<<>>)))
        kept == SelectSeq([i \in 1..Len(rows) |-> MapRow(rows[i])], IsSome)
    IN  [i \in 1..Len(kept) |-> Val(kept[i])]

(* Mutant: total is the length of the page *)
ReaderTotalIsPageLength(ch, st, min, max, pg, size, filtered) ==
    LET q == StorageQuery(ch, st, min, max, (pg - 1) * size, size, filtered)
    IN  [items |-> ItemsOf(q.data), total |-> Len(ItemsOf(q.data))]

(* What fetchChannelsFromSupabase returns for the answer q of the storage
   layer (lines 132-150): total is count ?? items.length *)
ReaderResult(q) ==
    [items |-> ItemsOf(q.data),
     total |-> Val(Coalesce(q.count, Some(Len(ItemsOf(q.data)))))]

(* fetchChannelsFromSupabase when the query succeeds (lines 103-150) *)
Reader(ch, st, min, max, pg, size, filtered) ==
    ReaderResult(StorageQuery(ch, st, min, max, (pg - 1) * size, size, filtered))

(* channelRows and statsRows (lines 350-364) *)
ChannelRow(channel) ==
    [id |-> channel.id,
     title |-> Some(channel.title),
     custom_url |-> channel.customUrl,
     thumbnail_url |-> channel.thumbnailUrl,
     country |-> channel.country,
     etag |-> channel.etag]

StatsRow(channel) ==
    [channel_id |-> channel.id,
     subscriber_count |-> channel.subscriberCount,
     view_count |-> channel.viewCount,
     video_count |-> channel.videoCount]

(* Mutant: the table is replaced by the rows of the batch *)
UpsertReplacesTable(table, rows, keys) ==
    [id \in Range(keys) |->
        rows[CHOOSE i \in 1..Len(rows) :
                /\ keys[i] = id
                /\ \A j \in (i + 1)..Len(rows) : keys[j] # id]]

(* Mutant: a row whose key is already in the table is left as it is
   (ignoreDuplicates) *)
UpsertIgnoreDuplicates(table, rows, keys) ==
    [id \in DOMAIN table \cup Range(keys) |->
        IF id \in DOMAIN table THEN table[id]
        ELSE rows[CHOOSE i \in 1..Len(rows) :
                     /\ keys[i] = id
                     /\ \A j \in (i + 1)..Len(rows) : keys[j] # id]]

(* Mutant: a row whose key is already in the table is deleted instead of
   replaced *)
UpsertDeleteOnConflict(table, rows, keys) ==
    [id \in (DOMAIN table \cup Range(keys)) \ (DOMAIN table \cap Range(keys)) |->
        IF id \in Range(keys)
        THEN rows[CHOOSE i \in 1..Len(rows) :
                     /\ keys[i] = id
                     /\ \A j \in (i + 1)..Len(rows) : keys[j] # id]
        ELSE table[id]]

(* Mutant: a field that is absent in the new row keeps the value of the row
   that is replaced *)
UpsertMergesFields(table, rows, keys) ==
    [id \in DOMAIN table \cup Range(keys) |->
        IF id \in Range(keys)
        THEN LET row == rows[CHOOSE i \in 1..Len(rows) :
                                /\ keys[i] = id
                                /\ \A j \in (i + 1)..Len(rows) : keys[j] # id]
             IN  [f \in DOMAIN row |->
                     IF /\ id \in DOMAIN table
                        /\ f \notin {"id", "channel_id"}
                        /\ row[f] = None
                     THEN table[id][f] ELSE row[f]]
        ELSE table[id]]

(* upsert(rows, { onConflict: key }) (lines 367, 372-374): the table with every
   row of `rows` inserted or replacing the row of its key; keys[i] is the value
   of the conflict column in rows[i]. *)
Upsert(table, rows, keys) ==
    [id \in DOMAIN table \cup Range(keys) |->
        IF id \in Range(keys)
        THEN rows[CHOOSE i \in 1..Len(rows) :
                     /\ keys[i] = id
                     /\ \A j \in (i + 1)..Len(rows) : keys[j] # id]
        ELSE table[id]]

----------------------------------------------------------------------------
(* The discovery run as a state machine: one action per resumption after an
   await of fetchYouTubeChannels. *)

(* Search responses: items with or without a channel identifier. The code
   compares identifiers for equality only, so the channels are numbered in the
   order in which the search responses first name them. *)
SearchItems == SeqsUpTo({None} \cup {Some(id) : id \in Ids}, MaxItems)
NamedInOrder(items, order) ==
    \A i \in 1..Len(items) :
        IsSome(items[i]) =>
            Val(items[i]) <= 1 + Len(order)
                + Cardinality({Val(items[j]) : j \in {k \in 1..(i - 1) : IsSome(items[k])}}
                              \ Range(order))
SearchResponses(order) == {items \in SearchItems : NamedInOrder(items, order)}

(* Details responses: items, in any order and with repeats, for identifiers
   that a search response has named, or without identifier. *)
DetailResponses(known) == SeqsUpTo({None} \cup {Some(id) : id \in known}, MaxItems)
(* The continuation cursor of a search response: none, or the cursor of the
   page after the one asked for by search call number `call`. *)
Tokens(call) == {None, Some(ToString(call))}
HttpErrors == {403, 500}

(* return collected.slice(0, MAX_RESULTS) (line 241) *)
Return(acc) ==
    /\ pc' = "returned"
    /\ result' = Slice(acc, resultCap)
    /\ UNCHANGED <<searchReq, searchCalls>>

(* Mutant: the loop goes on without testing the accumulator against the cap *)
LoopHeadNoCapTest(acc, tok) ==
    /\ pc' = "awaitSearch"
    /\ searchReq' = [maxResults |-> Min(chunkSize, resultCap - Len(acc)),
                     pageToken |-> tok]
    /\ searchCalls' = searchCalls + 1
    /\ UNCHANGED result

(* The loop head (lines 158-170): leave the loop at the cap, otherwise issue
   the next search request. *)
LoopHead(acc, tok) ==
    IF Len(acc) < resultCap
    THEN /\ pc' = "awaitSearch"
         /\ searchReq' = [maxResults |-> Min(chunkSize, resultCap - Len(acc)),
                          pageToken |-> tok]
         /\ searchCalls' = searchCalls + 1
         /\ UNCHANGED result
    ELSE Return(acc)

(* Mutant: the run returns after its first page, with or without a cursor *)
AdvanceStopsAfterOnePage(acc, tok) ==
    /\ nextPageToken' = tok
    /\ Return(acc)

(* if (!nextPageToken) break, then the loop head or the return *)
Advance(acc, tok) ==
    /\ nextPageToken' = tok
    /\ IF IsSome(tok) THEN LoopHead(acc, tok) ELSE Return(acc)

RECURSIVE FirstAppearances(_, _, _)
(* `order` extended by the identifiers of items not yet in it, in item order *)
FirstAppearances(order, items, i) ==
    IF i > Len(items) THEN order
    ELSE IF IsSome(items[i]) /\ Val(items[i]) \notin Range(order)
         THEN FirstAppearances(Append(order, Val(items[i])), items, i + 1)
         ELSE FirstAppearances(order, items, i + 1)

(* Mutant: the details of a page are looked up also when it has no candidate *)
NeedsDetailsAlways(cands) == TRUE

(* if (candidateIds.length === 0) ... continue (lines 186-190): a page is
   looked up only when it has candidates *)
NeedsDetails(cands) == Len(cands) # 0

(* A successful search response (lines 176-201); searchData.nextPageToken is
   `tok`. *)
SearchOk(items, tok) ==
    /\ pc = "awaitSearch"
    /\ searchCalls = MaxCalls => tok = None
    /\ LET remaining == resultCap - Len(collected)
           cc == CollectCandidates(items, seen, remaining)
       IN  /\ seen' = cc.seen
           /\ appeared' = FirstAppearances(appeared, items, 1)
           /\ notes' = notes
                 \cup (IF \E i \in 1..Len(items) :
                            /\ IsSome(items[i])
                            /\ \/ Val(items[i]) \in seen
                               \/ \E j \in 1..(i - 1) : items[j] = items[i]
                       THEN {"repeat"} ELSE {})
                 \cup (IF \E i \in 1..Len(items) : IsSome(items[i]) /\ Val(items[i]) \in seen
                       THEN {"seenAgain"} ELSE {})
                 \cup (IF Len(items) > searchReq.maxResults
                       THEN {"overlong"} ELSE {})
           /\ pageToken' = tok
           /\ IF ~NeedsDetails(cc.candidateIds)
              THEN /\ Advance(collected, tok)
                   /\ UNCHANGED <<candidateIds, detailCalls, lookedUp>>
              ELSE /\ candidateIds' = cc.candidateIds
                   /\ pc' = "awaitDetails"
                   /\ detailCalls' = detailCalls + 1
                   /\ lookedUp' = lookedUp \o cc.candidateIds
                   /\ UNCHANGED <<nextPageToken, searchReq, searchCalls, result>>
    /\ UNCHANGED <<resultCap, chunkSize, collected, failure, dropped>>
    /\ UNCHANGED <<storeVars, readVars, reqVars, storageCalls, envVars>>

(* Mutant: a search response that is not ok ends the loop, and what was
   collected so far is returned *)
SearchFailReturnsPartial(status) ==
    /\ pc = "awaitSearch"
    /\ pc' = "returned"
    /\ result' = Slice(collected, resultCap)
    /\ failure' = Some([api |-> "search", status |-> status])
    /\ UNCHANGED <<resultCap, chunkSize, collected, seen, nextPageToken, searchReq,
                   candidateIds, pageToken, searchCalls, detailCalls,
                   appeared, lookedUp, dropped, notes>>
    /\ UNCHANGED <<storeVars, readVars, reqVars, storageCalls, envVars>>

(* A search response that is not ok (lines 171-174) *)
SearchFail(status) ==
    /\ pc = "awaitSearch"
    /\ pc' = "failed"
    /\ failure' = Some([api |-> "search", status |-> status])
    /\ UNCHANGED <<resultCap, chunkSize, collected, seen, nextPageToken, searchReq,
                   candidateIds, pageToken, result, searchCalls, detailCalls,
                   appeared, lookedUp, dropped, notes>>
    /\ UNCHANGED <<storeVars, readVars, reqVars, storageCalls, envVars>>

(* A successful details response (lines 203-238) *)
DetailsOk(idOpts) ==
    /\ pc = "awaitDetails"
    /\ LET items == DetailItems(idOpts)
           acc == AppendCollected(collected, candidateIds, items)
       IN  /\ collected' = acc
           /\ dropped' = dropped \cup (Range(candidateIds) \ {Val(o) : o \in Range(idOpts) \ {None}})
           /\ notes' = notes
                 \cup (IF \E i, j \in 1..Len(idOpts) :
                            /\ i < j /\ IsSome(idOpts[i]) /\ IsSome(idOpts[j])
                            /\ IndexOf(candidateIds, Val(idOpts[i])) >
                                    IndexOf(candidateIds, Val(idOpts[j]))
                            /\ IndexOf(candidateIds, Val(idOpts[j])) > 0
                       THEN {"swapped"} ELSE {})
                 \cup (IF \E i, j \in 1..Len(idOpts) :
                            i < j /\ IsSome(idOpts[i]) /\ idOpts[i] = idOpts[j]
                       THEN {"twice"} ELSE {})
           /\ Advance(acc, pageToken)
    /\ UNCHANGED <<resultCap, chunkSize, seen, candidateIds, pageToken, failure,
                   detailCalls, appeared, lookedUp>>
    /\ UNCHANGED <<storeVars, readVars, reqVars, storageCalls, envVars>>

(* A details response that is not ok (lines 198-201) *)
DetailsFail(status) ==
    /\ pc = "awaitDetails"
    /\ pc' = "failed"
    /\ failure' = Some([api |-> "channels", status |-> status])
    /\ UNCHANGED <<resultCap, chunkSize, collected, seen, nextPageToken, searchReq,
                   candidateIds, pageToken, result, searchCalls, detailCalls,
                   appeared, lookedUp, dropped, notes>>
    /\ UNCHANGED <<storeVars, readVars, reqVars, storageCalls, envVars>>

----------------------------------------------------------------------------
(* The request handlers GET and POST: one action per resumption after an await *)

NoSearch == [maxResults |-> 0, pageToken |-> None]

(* No overlapping refresh request *)
NoPeer == [pc |-> "none", result |-> <<>>]

(* The locals of fetchYouTubeChannels at its start (lines 154-156), at
   position p *)
FetchLocals(p) ==
    /\ pc' = p
    /\ collected' = <<>>
    /\ seen' = {}
    /\ nextPageToken' = None
    /\ candidateIds' = <<>>
    /\ pageToken' = None
    /\ result' = <<>>
    /\ failure' = None
    /\ detailCalls' = 0
    /\ appeared' = <<>>
    /\ lookedUp' = <<>>
    /\ dropped' = {}
    /\ notes' = {}
    /\ UNCHANGED <<resultCap, chunkSize>>

(* The handler returns `resp` before any call *)
Reject(resp) ==
    /\ response' = Some(resp)
    /\ FetchLocals("done")
    /\ searchReq' = NoSearch
    /\ searchCalls' = 0
    /\ storageCalls' = 0
    /\ readerArgs' = None

(* await fetchChannelsFromSupabase(supabase, minSubscribers, maxSubscribers,
   page, PAGE_SIZE): the query is sent (lines 105-126) *)
IssueRead(min, max, pg) ==
    /\ readerArgs' = Some([min |-> min, max |-> max, page |-> pg, pageSize |-> pageSize])
    /\ storageCalls' = storageCalls + 1

(* Mutant: the credentials are tested before the bounds *)
AdmitCredentialsFirst(method, v, youtubeKey, supabase) ==
    IF method = "POST" /\ ~youtubeKey
    THEN Some(ErrorResponse(500, Message("Server is not configured with YOUTUBE_API_KEY")))
    ELSE IF ~supabase
    THEN Some(ErrorResponse(500, Message("Server is not configured with Supabase credentials")))
    ELSE IF ~v.ok THEN Some(ErrorResponse(400, v.error))
    ELSE None

(* The early returns of a handler, in their order (GET lines 250-282, POST
   lines 305-345): the response, or None when the request goes on. v is the
   outcome of ValidateBounds. *)
Admit(method, v, youtubeKey, supabase) ==
    IF ~v.ok THEN Some(ErrorResponse(400, v.error))
    ELSE IF method = "POST" /\ ~youtubeKey
    THEN Some(ErrorResponse(500, Message("Server is not configured with YOUTUBE_API_KEY")))
    ELSE IF ~supabase
    THEN Some(ErrorResponse(500, Message("Server is not configured with Supabase credentials")))
    ELSE None

(* Mutant: GET runs the discovery and the sync as POST does *)
ReadsOnlyNever(method) == FALSE

(* The handler goes straight to the Reader (GET, lines 284-291) instead of
   through fetchYouTubeChannels and the upserts (POST, lines 347-376) *)
ReadsOnly(method) == method = "GET"

(* A request arrives: GET lines 244-291, POST lines 299-348 up to the first
   await. *)
Receive(method, rawMin, rawMax, rawPage, youtubeKey, supabase) ==
    /\ pc = "idle"
    /\ req' = Some([method |-> method, minSubscribers |-> rawMin, maxSubscribers |-> rawMax,
                    page |-> rawPage, youtubeKey |-> youtubeKey, supabase |-> supabase])
    /\ readResult' = None
    /\ storageFiltered' = TRUE
    /\ LET v == ValidateBounds(rawMin, rawMax)
           early == Admit(method, v, youtubeKey, supabase)
       IN  /\ page' = parsePage(rawPage)
           /\ minSubscribers' = v.min
           /\ maxSubscribers' = v.max
           /\ IF IsSome(early) THEN Reject(Val(early))
              ELSE IF ReadsOnly(method)
              THEN /\ FetchLocals("awaitRead")
                   /\ searchReq' = NoSearch
                   /\ searchCalls' = 0
                   /\ readerArgs' = Some([min |-> v.min, max |-> v.max,
                                          page |-> parsePage(rawPage), pageSize |-> pageSize])
                   /\ storageCalls' = 1
                   /\ response' = None
              ELSE /\ FetchLocals("awaitSearch")
                   /\ searchReq' = [maxResults |-> Min(chunkSize, resultCap),
                                    pageToken |-> None]
                   /\ searchCalls' = 1
                   /\ readerArgs' = None
                   /\ storageCalls' = 0
                   /\ response' = None
    /\ UNCHANGED <<storeVars, pageSize, envVars>>

fetchLocalVars == <<resultCap, chunkSize, collected, seen, nextPageToken, searchReq,
                    candidateIds, pageToken, result, failure, searchCalls, detailCalls,
                    appeared, lookedUp, dropped, notes>>

(* fetchYouTubeChannels returned (lines 348-367, 378): the rows are mapped and
   the first upsert is sent, or, for an empty list, the Reader is called. *)
FetchReturned ==
    /\ pc = "returned"
    /\ IsSome(req)
    /\ IF Len(result) > 0
       THEN /\ pc' = "awaitUpsertChannels"
            /\ storageCalls' = storageCalls + 1
            /\ UNCHANGED readerArgs
       ELSE /\ pc' = "awaitRead"
            /\ IssueRead(minSubscribers, maxSubscribers, page)
    /\ UNCHANGED <<fetchLocalVars, storeVars, reqVars, pageSize, readResult, storageFiltered,
                   envVars>>

(* fetchYouTubeChannels threw (lines 392-395) *)
FetchThrew ==
    /\ pc = "failed"
    /\ IsSome(req)
    /\ pc' = "done"
    /\ response' = Some(ErrorResponse(500,
            UpstreamMessage(IF Val(failure).api = "search" THEN "YouTube search API error:"
                            ELSE "YouTube channels API error:", Val(failure).status)))
    /\ UNCHANGED <<fetchLocalVars, storeVars, readVars, req, minSubscribers, maxSubscribers,
                   page, storageCalls, envVars>>

(* The upsert into channels succeeded (lines 367-374) *)
UpsertChannelsOk ==
    /\ pc = "awaitUpsertChannels"
    /\ channels' = Upsert(channels, [i \in 1..Len(result) |-> ChannelRow(result[i])], IdsOf(result))
    /\ pc' = "awaitUpsertStats"
    /\ storageCalls' = storageCalls + 1
    /\ writes' = writes \o [i \in 1..Len(result) |->
                                [by |-> "request", table |-> "channels", key |-> result[i].id,
                                 row |-> ChannelRow(result[i])]]
    /\ UNCHANGED <<fetchLocalVars, stats, readVars, reqVars, source, peer, storeBefore>>

(* Mutant: a failed upsert undoes what the request has written *)
UpsertFailRollsBack ==
    /\ pc \in {"awaitUpsertChannels", "awaitUpsertStats"}
    /\ pc' = "done"
    /\ response' = Some(ErrorResponse(500, Message("storage error")))
    /\ channels' = storeBefore.channels
    /\ stats' = storeBefore.stats
    /\ UNCHANGED <<fetchLocalVars, readVars, req, minSubscribers, maxSubscribers,
                   page, storageCalls, envVars>>

(* Mutant: the error of the upsert into channels is not looked at, and the
   request goes on to the upsert into channel_stats *)
UpsertFailGoesOn ==
    /\ pc \in {"awaitUpsertChannels", "awaitUpsertStats"}
    /\ IF pc = "awaitUpsertChannels"
       THEN /\ pc' = "awaitUpsertStats"
            /\ storageCalls' = storageCalls + 1
            /\ UNCHANGED response
       ELSE /\ pc' = "done"
            /\ response' = Some(ErrorResponse(500, Message("storage error")))
            /\ UNCHANGED storageCalls
    /\ UNCHANGED <<fetchLocalVars, storeVars, readVars, req, minSubscribers, maxSubscribers,
                   page, envVars>>

(* An upsert failed (lines 368, 375, 392-395) *)
UpsertFail ==
    /\ pc \in {"awaitUpsertChannels", "awaitUpsertStats"}
    /\ pc' = "done"
    /\ response' = Some(ErrorResponse(500, Message("storage error")))
    /\ UNCHANGED <<fetchLocalVars, storeVars, readVars, req, minSubscribers, maxSubscribers,
                   page, storageCalls, envVars>>

(* The upsert into channel_stats succeeded (lines 372-384) *)
UpsertStatsOk ==
    /\ pc = "awaitUpsertStats"
    /\ stats' = Upsert(stats, [i \in 1..Len(result) |-> StatsRow(result[i])], IdsOf(result))
    /\ pc' = "awaitRead"
    /\ IssueRead(minSubscribers, maxSubscribers, page)
    /\ writes' = writes \o [i \in 1..Len(result) |->
                                [by |-> "request", table |-> "channel_stats",
                                 key |-> result[i].id, row |-> StatsRow(result[i])]]
    /\ UNCHANGED <<fetchLocalVars, channels, reqVars, pageSize, readResult, storageFiltered,
                   source, peer, storeBefore>>

(* fetchChannelsFromSupabase is called on its own *)
ReaderCall(min, max, pg) ==
    /\ pc = "idle"
    /\ pc' = "awaitRead"
    /\ req' = None
    /\ response' = None
    /\ readResult' = None
    /\ storageFiltered' = TRUE
    /\ readerArgs' = Some([min |-> min, max |-> max, page |-> pg, pageSize |-> pageSize])
    /\ storageCalls' = 1
    /\ UNCHANGED <<fetchLocalVars, storeVars, pageSize, minSubscribers, maxSubscribers, page,
                   envVars>>

(* The query of the Reader succeeded (lines 128-150, 292, 385-391); the storage
   layer applied the title exclusion or, `filtered` = FALSE, did not. *)
ReadOk(filtered) ==
    /\ pc = "awaitRead"
    /\ LET a == Val(readerArgs)
           r == Reader(channels, stats, a.min, a.max, a.page, a.pageSize, filtered)
       IN  /\ readResult' = Some([ok |-> TRUE, items |-> r.items, total |-> r.total])
           /\ response' =
                 IF IsSome(req)
                 THEN Some([status |-> 200, error |-> NoMessage,
                            refreshed |-> IF Val(req).method = "POST" THEN Some(Len(result))
                                          ELSE None,
                            items |-> r.items, page |-> page, pageSize |-> pageSize,
                            total |-> r.total])
                 ELSE None
    /\ storageFiltered' = filtered
    /\ pc' = "done"
    /\ UNCHANGED <<fetchLocalVars, storeVars, pageSize, readerArgs, req, minSubscribers,
                   maxSubscribers, page, storageCalls, envVars>>

(* Mutant: a refresh whose read failed still reports the refreshed count *)
ReadFailReportsRefreshed ==
    /\ pc = "awaitRead"
    /\ readResult' = Some([ok |-> FALSE, items |-> <<>>, total |-> 0])
    /\ response' = IF IsSome(req)
                   THEN Some([ErrorResponse(500, Message("storage error")) EXCEPT
                                !.refreshed = IF Val(req).method = "POST"
                                              THEN Some(Len(result)) ELSE None])
                   ELSE None
    /\ pc' = "done"
    /\ UNCHANGED <<fetchLocalVars, storeVars, pageSize, readerArgs, storageFiltered, req,
                   minSubscribers, maxSubscribers, page, storageCalls, envVars>>

(* The query of the Reader failed (lines 128-130, 293-296, 392-395) *)
ReadFail ==
    /\ pc = "awaitRead"
    /\ readResult' = Some([ok |-> FALSE, items |-> <<>>, total |-> 0])
    /\ response' = IF IsSome(req) THEN Some(ErrorResponse(500, Message("storage error")))
                   ELSE None
    /\ pc' = "done"
    /\ UNCHANGED <<fetchLocalVars, storeVars, pageSize, readerArgs, storageFiltered, req,
                   minSubscribers, maxSubscribers, page, storageCalls, envVars>>

(* The response is sent and the locals of the request are gone; with no
   overlapping request in progress the store is at rest again. *)
Finish ==
    /\ pc = "done"
    /\ IsSome(req)
    /\ peer.pc \in {"none", "done"}
    /\ peer' = NoPeer
    /\ writes' = <<>>
    /\ storeBefore' = [channels |-> channels, stats |-> stats]
    /\ FetchLocals("idle")
    /\ searchReq' = NoSearch
    /\ searchCalls' = 0
    /\ storageCalls' = 0
    /\ req' = None
    /\ minSubscribers' = 0
    /\ maxSubscribers' = MAX_ALLOWED_SUBSCRIBERS
    /\ page' = 1
    /\ readerArgs' = None
    /\ readResult' = None
    /\ storageFiltered' = TRUE
    /\ response' = None
    /\ UNCHANGED <<storeVars, pageSize, source>>

----------------------------------------------------------------------------
(* A second refresh request (POST) that overlaps the first. Its discovery run
   and its read do not touch the store; what the store sees of it are its two
   upserts (lines 366-376), each one statement of the storage layer. *)

requestVars == <<fetchVars, readVars, reqVars, storageCalls, source, storeBefore>>

(* fetchYouTubeChannels of the overlapping request returned `list` (lines
   348-367); with an empty list nothing is upserted. *)
PeerFetched(list) ==
    /\ peer.pc = "none"
    /\ peer' = [pc |-> IF Len(list) > 0 THEN "awaitUpsertChannels" ELSE "done",
                result |-> list]
    /\ UNCHANGED <<requestVars, storeVars, writes>>

(* Its upsert into channels succeeded (lines 366-369) *)
PeerUpsertChannelsOk ==
    /\ peer.pc = "awaitUpsertChannels"
    /\ channels' = Upsert(channels, [i \in 1..Len(peer.result) |-> ChannelRow(peer.result[i])],
                          IdsOf(peer.result))
    /\ writes' = writes \o [i \in 1..Len(peer.result) |->
                                [by |-> "peer", table |-> "channels", key |-> peer.result[i].id,
                                 row |-> ChannelRow(peer.result[i])]]
    /\ peer' = [peer EXCEPT !.pc = "awaitUpsertStats"]
    /\ UNCHANGED <<requestVars, stats>>

(* Its upsert into channel_stats succeeded (lines 371-376) *)
PeerUpsertStatsOk ==
    /\ peer.pc = "awaitUpsertStats"
    /\ stats' = Upsert(stats, [i \in 1..Len(peer.result) |-> StatsRow(peer.result[i])],
                       IdsOf(peer.result))
    /\ writes' = writes \o [i \in 1..Len(peer.result) |->
                                [by |-> "peer", table |-> "channel_stats",
                                 key |-> peer.result[i].id, row |-> StatsRow(peer.result[i])]]
    /\ peer' = [peer EXCEPT !.pc = "done"]
    /\ UNCHANGED <<requestVars, channels>>

(* One of its upserts failed (lines 368, 375, 392-395) *)
PeerUpsertFail ==
    /\ peer.pc \in {"awaitUpsertChannels", "awaitUpsertStats"}
    /\ peer' = [peer EXCEPT !.pc = "done"]
    /\ UNCHANGED <<requestVars, storeVars, writes>>

----------------------------------------------------------------------------
(* Store contents *)

SubscriberCounts == {None, Some(100), Some(1000), Some(5000)}

StoredChannel(id, clip) ==
    [id |-> id,
     title |-> Some(IF clip THEN <<"Vtuber", "KIRINUKI", ToString(id)>>
                    ELSE <<"Vtuber", ToString(id)>>),
     custom_url |-> CASE id % 3 = 0 -> Some(<<"@", "handle", ToString(id)>>)
                      [] id % 3 = 2 -> Some(<<"name", ToString(id)>>)
                      [] OTHER -> None,
     thumbnail_url |-> Some(<<"default", ToString(id)>>),
     country |-> Some("JP"),
     etag |-> Some(1)]

StoredStats(id, subs) ==
    [channel_id |-> id, subscriber_count |-> subs, view_count |-> Some(10 * id),
     video_count |-> None]

(* What the store holds of one channel: its identity row, with or without the
   excluded text in the title, and its statistics row, if any. A statistics
   row refers to an identity row (the join of the Reader rests on that
   reference). *)
ChannelStates ==
    {[clip |-> c, hasStats |-> TRUE, subs |-> n] : c \in BOOLEAN, n \in SubscriberCounts}
        \cup {[clip |-> FALSE, hasStats |-> FALSE, subs |-> None]}

(* The store that holds channel ids[k] in state states[k] *)
StoreWith(states, ids) ==
    [channels |-> [id \in {ids[k] : k \in DOMAIN states}
                      |-> StoredChannel(id, states[IndexOf(ids, id)].clip)],
     stats |-> [id \in {ids[k] : k \in {i \in DOMAIN states : states[i].hasStats}}
                    |-> StoredStats(id, states[IndexOf(ids, id)].subs)]]

StoreOf(states) == StoreWith(states, [k \in DOMAIN states |-> k])

(* The identifier of the k-th channel of the stores the Reader is run over: 1,
   20, 3, 40, .., whose order as text (channel_id is a text column) is not
   their order as numbers *)
StoredId(k) == IF k % 2 = 0 THEN 10 * k ELSE k

(* Stores of n channels, n <= MaxStored *)
Stores ==
    UNION {{StoreWith(states, [k \in 1..n |-> StoredId(k)]) : states \in [1..n -> ChannelStates]}
              : n \in 0..MaxStored}

EmptyStore == StoreOf(<<>>)

(* Three records with 100, 1000 and 5000 subscribers and titles that are not
   excluded (the scenario of the specification's section 8). *)
ScenarioStore ==
    StoreOf(<<[clip |-> FALSE, hasStats |-> TRUE, subs |-> Some(100)],
              [clip |-> FALSE, hasStats |-> TRUE, subs |-> Some(1000)],
              [clip |-> FALSE, hasStats |-> TRUE, subs |-> Some(5000)]>>)

----------------------------------------------------------------------------
(* Specifications *)

(* No request and no discovery run yet *)
AtRest ==
    /\ collected = <<>>
    /\ seen = {}
    /\ nextPageToken = None
    /\ candidateIds = <<>>
    /\ pageToken = None
    /\ result = <<>>
    /\ failure = None
    /\ detailCalls = 0
    /\ appeared = <<>>
    /\ lookedUp = <<>>
    /\ dropped = {}
    /\ notes = {}
    /\ req = None
    /\ minSubscribers = 0
    /\ maxSubscribers = MAX_ALLOWED_SUBSCRIBERS
    /\ page = 1
    /\ readerArgs = None
    /\ readResult = None
    /\ storageFiltered = TRUE
    /\ storageCalls = 0
    /\ response = None
    /\ peer = NoPeer
    /\ writes = <<>>
    /\ storeBefore = [channels |-> channels, stats |-> stats]

(* The deployments explored: the source's constants, and scaled-down caps *)
FetchConfigs ==
    {<<MAX_RESULTS, CHUNK_SIZE>>} \cup {<<c, k>> : c \in 1..MaxCap, k \in 1..MaxCap}

(* A discovery run that has issued its first search request (lines 154-170) *)
InitFetch ==
    /\ \E cfg \in FetchConfigs :
          /\ resultCap = cfg[1]
          /\ chunkSize = cfg[2]
          /\ searchReq = [maxResults |-> Min(cfg[2], cfg[1]), pageToken |-> None]
    /\ pc = "awaitSearch"
    /\ searchCalls = 1
    /\ pageSize = PAGE_SIZE
    /\ channels = EmptyStore.channels
    /\ stats = EmptyStore.stats
    /\ source = 0
    /\ AtRest

NextFetch ==
    \/ \E items \in SearchResponses(appeared), tok \in Tokens(searchCalls) :
            SearchOk(items, tok)
    \/ \E status \in HttpErrors : SearchFail(status)
    \/ \E idOpts \in DetailResponses(Range(appeared)) : DetailsOk(idOpts)
    \/ \E status \in HttpErrors : DetailsFail(status)

SpecFetch == InitFetch /\ [][NextFetch]_vars

(* The discovery run against endpoints that answer every call: fetch() is
   awaited (lines 170, 197), and the run takes its next step when the answer is
   there. The source runs out of pages: the answer to search call number
   MaxCalls has no continuation cursor. *)
SpecFetchFair == SpecFetch /\ WF_vars(NextFetch)

(* The Reader on its own, over every store of channels 1..MaxStored *)
ReadRanges == {<<0, MAX_ALLOWED_SUBSCRIBERS>>, <<500, 2000>>, <<1000, 1000>>, <<100, 1000>>}
PageSizes == {1, 2, PAGE_SIZE}

InitRead ==
    /\ resultCap = MAX_RESULTS
    /\ chunkSize = CHUNK_SIZE
    /\ pageSize \in PageSizes
    /\ \E store \in Stores \cup {ScenarioStore} :
          channels = store.channels /\ stats = store.stats
    /\ pc = "idle"
    /\ searchReq = NoSearch
    /\ searchCalls = 0
    /\ source = 0
    /\ AtRest

NextRead ==
    \/ \E range \in ReadRanges, pg \in 1..MaxPage : ReaderCall(range[1], range[2], pg)
    \/ \E filtered \in BOOLEAN : ReadOk(filtered)
    \/ ReadFail

SpecRead == InitRead /\ [][NextRead]_vars

(* The two endpoints, with the constants of the source *)
MinInputs == {Absent, Text, Num(-1), Num(1000), Num(20000), Num(20001), Num(20002)}
MaxInputs == {Absent, Blank, Text, Num(-2), Num(999), Num(20002), Num(40000)}
PageInputs == {Absent, Num(4)}

EndpointSearchResponses == {<<>>, <<Some(1), Some(2)>>}
EndpointDetailResponses(cands) ==
    IF cands = <<>> THEN {}
    ELSE {[i \in 1..Len(cands) |-> Some(cands[i])], <<Some(cands[Len(cands)])>>}

Init ==
    /\ resultCap = MAX_RESULTS
    /\ chunkSize = CHUNK_SIZE
    /\ pageSize = PAGE_SIZE
    /\ \E store \in {EmptyStore, ScenarioStore} :
          channels = store.channels /\ stats = store.stats
    /\ pc = "idle"
    /\ searchReq = NoSearch
    /\ searchCalls = 0
    /\ source = 0
    /\ AtRest

Next ==
    \/ \E method \in {"GET", "POST"}, rawMin \in MinInputs, rawMax \in MaxInputs,
          rawPage \in PageInputs, youtubeKey \in BOOLEAN, supabase \in BOOLEAN :
            Receive(method, rawMin, rawMax, rawPage, youtubeKey, supabase)
    \/ \E items \in {r \in EndpointSearchResponses : NamedInOrder(r, appeared)},
          tok \in Tokens(searchCalls) :
            SearchOk(items, tok)
    \/ \E status \in HttpErrors : SearchFail(status)
    \/ \E idOpts \in EndpointDetailResponses(candidateIds) : DetailsOk(idOpts)
    \/ \E status \in HttpErrors : DetailsFail(status)
    \/ FetchReturned
    \/ FetchThrew
    \/ UpsertChannelsOk
    \/ UpsertStatsOk
    \/ UpsertFail
    \/ \E filtered \in BOOLEAN : ReadOk(filtered)
    \/ ReadFail
    \/ Finish

Spec == Init /\ [][Next]_vars

(* Refresh against an external source that holds `source` candidates, all
   different, and answers a search call for m results with the next m of them
   (or those that are left), and with a cursor while more are left. *)
SourceSizes == (0..MaxU) \cup {120}

SourcePage(size, offered, m) ==
    [i \in 1..Min(m, size - offered) |-> Some(offered + i)]

SourceToken(size, offered, m, call) ==
    IF offered + Min(m, size - offered) < size THEN Some(ToString(call)) ELSE None

InitRefresh ==
    /\ \E cfg \in FetchConfigs : resultCap = cfg[1] /\ chunkSize = cfg[2]
    /\ pageSize = PAGE_SIZE
    /\ \E store \in {EmptyStore, ScenarioStore} :
          channels = store.channels /\ stats = store.stats
    /\ pc = "idle"
    /\ searchReq = NoSearch
    /\ searchCalls = 0
    /\ source \in SourceSizes
    /\ AtRest

NextRefresh ==
    \/ Receive("POST", Absent, Absent, Absent, TRUE, TRUE)
    \/ SearchOk(SourcePage(source, Len(appeared), searchReq.maxResults),
                SourceToken(source, Len(appeared), searchReq.maxResults, searchCalls))
    \/ \E status \in HttpErrors : SearchFail(status)
    \/ \E idOpts \in EndpointDetailResponses(candidateIds) : DetailsOk(idOpts)
    \/ \E status \in HttpErrors : DetailsFail(status)
    \/ FetchReturned
    \/ FetchThrew
    \/ UpsertChannelsOk
    \/ UpsertStatsOk
    \/ UpsertFail
    \/ \E filtered \in BOOLEAN : ReadOk(filtered)
    \/ ReadFail
    \/ Finish

SpecRefresh == InitRefresh /\ [][NextRefresh]_vars

(* Sync: a request with default parameters and a refresh request that overlaps
   it, over the same store. *)
Fetched(ids) ==
    AppendCollected(<<>>, ids, DetailItems([i \in 1..Len(ids) |-> Some(ids[i])]))

(* What the discovery run of the overlapping request can return here *)
PeerResults == {<<>>, Fetched(<<1, 2>>), Fetched(<<2>>)}

NextSync ==
    \/ \E method \in {"GET", "POST"} : Receive(method, Absent, Absent, Absent, TRUE, TRUE)
    \/ \E items \in {r \in EndpointSearchResponses : NamedInOrder(r, appeared)},
          tok \in Tokens(searchCalls) :
            SearchOk(items, tok)
    \/ \E status \in HttpErrors : SearchFail(status)
    \/ \E idOpts \in EndpointDetailResponses(candidateIds) : DetailsOk(idOpts)
    \/ \E status \in HttpErrors : DetailsFail(status)
    \/ FetchReturned
    \/ FetchThrew
    \/ UpsertChannelsOk
    \/ UpsertStatsOk
    \/ UpsertFail
    \/ \E filtered \in BOOLEAN : ReadOk(filtered)
    \/ ReadFail
    \/ Finish
    \/ \E list \in PeerResults : PeerFetched(list)
    \/ PeerUpsertChannelsOk
    \/ PeerUpsertStatsOk
    \/ PeerUpsertFail

SpecSync == Init /\ [][NextSync]_vars

(* The two endpoints asked for pages: the page parameter missing, empty, not a
   number, -1, -0.5, 0, 0.5, 1, 2.5 and 3, with bounds that pass validation or
   do not. *)
PageParams == {Absent, Blank, Text, Num(-2), Num(-1), Num(0), Num(1), Num(2), Num(5), Num(6)}

NextPage ==
    \/ \E method \in {"GET", "POST"}, rawMin \in {Absent, Num(-1)}, rawPage \in PageParams,
          supabase \in BOOLEAN :
            Receive(method, rawMin, Absent, rawPage, TRUE, supabase)
    \/ \E items \in {r \in EndpointSearchResponses : NamedInOrder(r, appeared)},
          tok \in Tokens(searchCalls) :
            SearchOk(items, tok)
    \/ \E status \in HttpErrors : SearchFail(status)
    \/ \E idOpts \in EndpointDetailResponses(candidateIds) : DetailsOk(idOpts)
    \/ \E status \in HttpErrors : DetailsFail(status)
    \/ FetchReturned
    \/ FetchThrew
    \/ UpsertChannelsOk
    \/ UpsertStatsOk
    \/ UpsertFail
    \/ \E filtered \in BOOLEAN : ReadOk(filtered)
    \/ ReadFail
    \/ Finish

SpecPage == Init /\ [][NextPage]_vars

----------------------------------------------------------------------------
(* Claims about the discovery run (checked under SpecFetch) *)

Occurrences(s, x) == Cardinality({i \in 1..Len(s) : s[i] = x})

(* C1: whatever the search and details endpoints answer, the accumulator never
   holds more than resultCap records and neither does the returned list; the
   candidates of a page number at most remaining = resultCap - accumulated;
   every search request asks for min(chunkSize, remaining) results. *)
FetchWithinCap ==
    /\ Len(collected) <= resultCap
    /\ pc = "awaitSearch" =>
          /\ searchReq.maxResults = Min(chunkSize, resultCap - Len(collected))
          /\ searchReq.maxResults >= 1
    /\ pc = "awaitDetails" =>
          /\ Len(candidateIds) >= 1
          /\ Len(candidateIds) <= resultCap - Len(collected)
    /\ pc = "returned" => Len(result) <= resultCap

(* A run that filled the cap although a page named more new channels than
   there was room for, and went through more than one page. *)
FetchWithinCapWitness ==
    /\ pc = "returned"
    /\ Len(result) = resultCap
    /\ Range(appeared) \ seen # {}
    /\ searchCalls >= 2

(* C2: the returned list never holds two records with the same id, also when
   the search endpoint repeats an identifier within a page or across pages and
   when the details endpoint repeats an item or answers in another order. *)
FetchNoDuplicateIds ==
    /\ NoDuplicates(IdsOf(collected))
    /\ pc = "returned" => NoDuplicates(IdsOf(result))

FetchNoDuplicateIdsWitness ==
    /\ pc = "returned"
    /\ Len(result) >= 2
    /\ {"repeat", "twice"} \subseteq notes
    /\ searchCalls >= 2

(* C3 as stated: the returned channels are listed in the order in which their
   identifiers first appeared in the search responses. *)
FetchFirstAppearanceOrder ==
    pc = "returned" => InOrderOf(IdsOf(result), appeared)

(* C3 amended: the returned channels are listed in the order in which their
   identifiers were taken as candidates (page by page, within a page in
   search-item order), whatever the order of the details responses. An
   identifier that a page names after its `remaining` candidates were taken is
   not a candidate of that page. *)
FetchCandidateOrder ==
    /\ NoDuplicates(lookedUp)
    /\ InOrderOf(IdsOf(collected), lookedUp)
    /\ pc = "returned" => InOrderOf(IdsOf(result), lookedUp)

FetchCandidateOrderWitness ==
    /\ pc = "returned"
    /\ Len(result) >= 2
    /\ "swapped" \in notes

(* C4: a candidate that the details response of its page does not contain is
   left out of the accumulator, stays in the seen set and is sent to the
   details endpoint exactly once in the run; the run does not fail for it (it
   fails only on a response that is not ok), and every other candidate whose
   details arrived is in the accumulator. *)
FetchDropsMissing ==
    /\ \A id \in dropped :
          /\ id \in seen
          /\ id \notin Range(IdsOf(collected))
          /\ Occurrences(lookedUp, id) = 1
    /\ \A id \in Range(lookedUp) \ dropped :
          \/ id \in Range(IdsOf(collected))
          \/ pc \in {"awaitDetails", "failed"} /\ id \in Range(candidateIds)
    /\ (pc = "failed") = IsSome(failure)

(* A run that dropped a candidate, saw it named again by a later page, and
   returned a channel found after it. *)
FetchDropsMissingWitness ==
    /\ pc = "returned"
    /\ failure = None
    /\ "repeat" \in notes
    /\ \E i, j \in 1..Len(lookedUp) :
          /\ i < j
          /\ lookedUp[i] \in dropped
          /\ lookedUp[j] \in Range(IdsOf(result))
    /\ detailCalls >= 2

----------------------------------------------------------------------------
(* Claims about the Reader (checked under SpecRead) *)

ReadSucceeded == IsSome(readResult) /\ Val(readResult).ok

(* C5: for every store content and every call with 0 <= min <= max <= ceiling,
   every item the Reader returns carries the subscriber count recorded for it in
   the store, and that count is present and within [min, max], bounds
   included. *)
ReaderRange ==
    ReadSucceeded =>
        LET a == Val(readerArgs)
            items == Val(readResult).items
        IN  /\ 0 <= a.min /\ a.min <= a.max /\ a.max <= MAX_ALLOWED_SUBSCRIBERS
            /\ \A i \in 1..Len(items) :
                  /\ items[i].id \in DOMAIN stats
                  /\ items[i].subscriberCount = stats[items[i].id].subscriber_count
                  /\ IsSome(items[i].subscriberCount)
                  /\ a.min <= Val(items[i].subscriberCount)
                  /\ Val(items[i].subscriberCount) <= a.max

(* The scenario of the specification: records with 100, 1000 and 5000
   subscribers, min = 500, max = 2000, page 1: exactly the record with 1000. *)
ReaderRangeWitness ==
    /\ ReadSucceeded
    /\ channels = ScenarioStore.channels
    /\ stats = ScenarioStore.stats
    /\ readerArgs = Some([min |-> 500, max |-> 2000, page |-> 1, pageSize |-> PAGE_SIZE])
    /\ IdsOf(Val(readResult).items) = <<2>>
    /\ Val(readResult).items[1].subscriberCount = Some(1000)
    /\ Val(readResult).total = 1

(* The records the query selects: both rows present, the subscriber count
   recorded and within the range, and the title not excluded by the storage
   layer (which is every title with the excluded text, unless the storage layer
   let them through in this call). *)
FilteredIds ==
    {id \in DOMAIN channels \cap DOMAIN stats :
        /\ stats[id].subscriber_count # None
        /\ Val(readerArgs).min <= Val(stats[id].subscriber_count)
        /\ Val(stats[id].subscriber_count) <= Val(readerArgs).max
        /\ ~(storageFiltered /\ ~TitlePasses(channels[id].title))}

(* C6: page k of size p holds exactly the filtered records at positions
   (k-1)*p .. k*p - 1 of their order by identifier, and total is the number of
   filtered records. *)
ReaderPagination ==
    ReadSucceeded =>
        LET a == Val(readerArgs)
            items == Val(readResult).items
            offset == (a.page - 1) * a.pageSize
            n == Cardinality(FilteredIds)
        IN  /\ Val(readResult).total = n
            /\ Len(items) = IF n <= offset THEN 0 ELSE Min(a.pageSize, n - offset)
            /\ \A i \in 1..Len(items) :
                  /\ items[i].id \in FilteredIds
                  /\ Cardinality({x \in FilteredIds : x # items[i].id /\ IdLeq(x, items[i].id)})
                        = offset + i - 1

(* Page 2 of a filtered set that is larger than the page and smaller than the
   store: channel 3, after channel 20 on page 1 *)
ReaderPaginationWitness ==
    /\ ReadSucceeded
    /\ storageFiltered
    /\ Val(readerArgs).page = 2
    /\ Len(Val(readResult).items) >= 1
    /\ Val(readResult).total > Len(Val(readResult).items)
    /\ Cardinality(DOMAIN stats) > Val(readResult).total
    /\ FilteredIds = {3, 20}
    /\ IdsOf(Val(readResult).items) = <<3>>

(* C10: no item of the Reader has a title with the excluded text, also when the
   storage layer's exclusion filter lets such a row through. *)
ReaderExcludesClips ==
    ReadSucceeded =>
        \A i \in 1..Len(Val(readResult).items) : ~TitleIsClip(Val(readResult).items[i].title)

----------------------------------------------------------------------------
(* Claims about the endpoints (checked under Spec) *)

IsNumber(value) == value.kind = "num"

(* The bound as a number cannot be used: it is no number, or negative *)
Malformed(value) == value.kind = "text" \/ (value.kind = "num" /\ value.twice < 0)

(* The largest integer not above the value of the parameter, or the default *)
Floored(value, default) == IF IsNumber(value) THEN value.twice \div 2 ELSE default

Answered(status) == IsSome(response) /\ Val(response).status = status

(* C7 as stated: a request whose minSubscribers is greater than the ceiling
   ends with status 400. *)
RejectsMinAboveCeiling ==
    (IsSome(req) /\ IsSome(response) /\ IsNumber(Val(req).minSubscribers)
        /\ Val(req).minSubscribers.twice > 2 * MAX_ALLOWED_SUBSCRIBERS)
    => Val(response).status = 400

(* C7 amended: a request (GET or POST) whose minSubscribers, rounded down to a
   whole number, is greater than the ceiling is answered with status 400 at
   once, whatever maxSubscribers is. *)
RejectsWholeMinAboveCeiling ==
    (IsSome(req) /\ IsNumber(Val(req).minSubscribers)
        /\ Val(req).minSubscribers.twice \div 2 > MAX_ALLOWED_SUBSCRIBERS)
    => pc = "done" /\ Answered(400)

RejectsWholeMinAboveCeilingWitness ==
    /\ IsSome(req)
    /\ Val(req).minSubscribers = Num(20002)
    /\ Val(req).maxSubscribers = Num(40000)
    /\ Val(req).method = "POST"
    /\ Answered(400)

(* C8: a request whose maxSubscribers is greater than the ceiling is rejected
   only for its minSubscribers (malformed or, rounded down, above the ceiling),
   and goes on with maxSubscribers = ceiling; whenever the Reader is called,
   0 <= minSubscribers <= maxSubscribers <= ceiling. *)
ClampsMaxAboveCeiling ==
    /\ IsSome(readerArgs) =>
          /\ 0 <= Val(readerArgs).min
          /\ Val(readerArgs).min <= Val(readerArgs).max
          /\ Val(readerArgs).max <= MAX_ALLOWED_SUBSCRIBERS
    /\ (IsSome(req) /\ IsNumber(Val(req).maxSubscribers)
            /\ Val(req).maxSubscribers.twice > 2 * MAX_ALLOWED_SUBSCRIBERS)
       => /\ Answered(400) =>
                \/ Malformed(Val(req).minSubscribers)
                \/ Floored(Val(req).minSubscribers, 0) > MAX_ALLOWED_SUBSCRIBERS
          /\ ~Answered(400) => maxSubscribers = MAX_ALLOWED_SUBSCRIBERS
          /\ IsSome(readerArgs) => Val(readerArgs).max = MAX_ALLOWED_SUBSCRIBERS

ClampsMaxAboveCeilingWitness ==
    /\ IsSome(req)
    /\ Val(req).maxSubscribers = Num(40000)
    /\ Val(req).minSubscribers = Num(1000)
    /\ Answered(200)
    /\ readerArgs = Some([min |-> 500, max |-> MAX_ALLOWED_SUBSCRIBERS,
                          page |-> page, pageSize |-> PAGE_SIZE])

(* The request fails parameter validation: a bound is malformed, or
   minSubscribers, rounded down, is above the ceiling or above maxSubscribers
   rounded down. *)
FailsValidation(r) ==
    \/ Malformed(r.minSubscribers)
    \/ Malformed(r.maxSubscribers)
    \/ Floored(r.minSubscribers, 0) > MAX_ALLOWED_SUBSCRIBERS
    \/ Floored(r.minSubscribers, 0) > Floored(r.maxSubscribers, MAX_ALLOWED_SUBSCRIBERS)

NoCallMade ==
    /\ searchCalls = 0
    /\ detailCalls = 0
    /\ storageCalls = 0
    /\ readerArgs = None

(* C9: a request that fails parameter validation is answered with status 400
   before any call to the search or details endpoint or to the storage layer,
   on GET and on POST, with or without credentials; and no request answered
   with 400 has made a call. *)
ValidationBeforeCalls ==
    /\ (IsSome(req) /\ FailsValidation(Val(req))) => pc = "done" /\ Answered(400) /\ NoCallMade
    /\ Answered(400) => NoCallMade

ValidationBeforeCallsWitness ==
    /\ IsSome(req)
    /\ Val(req).method = "POST"
    /\ Val(req).minSubscribers = Num(-1)
    /\ ~Val(req).youtubeKey
    /\ ~Val(req).supabase
    /\ Answered(400)
    /\ NoCallMade

----------------------------------------------------------------------------
(* Claims about sync (checked under SpecSync) *)

(* The request synced its list, and after that the overlapping request has
   synced, or is syncing, the same list: every upsert so far is one of the
   request's two, followed by upserts of the overlapping request only. *)
SyncedInARow ==
    /\ Len(result) > 0
    /\ peer.result = result
    /\ Len(writes) >= 2 * Len(result)
    /\ \A i \in 1..Len(writes) :
          writes[i].by = IF i <= 2 * Len(result) THEN "request" ELSE "peer"

(* C11: sync is idempotent: when a list of fetched records has been synced,
   every step of syncing the same list again leaves both projections as they
   are. *)
SyncIdempotent ==
    [][(SyncedInARow /\ peer' # peer) => (channels' = channels /\ stats' = stats)]_vars

(* The same two records synced twice in a row into a store that held other
   values for them *)
SyncIdempotentWitness ==
    /\ SyncedInARow
    /\ peer.pc = "done"
    /\ Len(result) = 2
    /\ Len(writes) = 4 * Len(result)
    /\ storeBefore.channels # <<>>
    /\ channels # storeBefore.channels
    /\ stats # storeBefore.stats

----------------------------------------------------------------------------
(* Claims about the stages of a request (checked under Spec) *)

(* C12 as stated: a refresh whose search or details call was answered with a
   non-success response is answered with status 502. *)
UpstreamFailureIs502 ==
    (IsSome(req) /\ IsSome(failure) /\ IsSome(response)) => Val(response).status = 502

(* C13: from the step in which a search or details call of a refresh is
   answered with a non-success response, no search, details or storage call is
   issued for the request, nothing is upserted, and the store is as it was
   before the request. *)
UpstreamFailureAborts ==
    [][IsSome(failure') =>
          /\ pc' \in {"failed", "done"}
          /\ searchCalls' = searchCalls
          /\ detailCalls' = detailCalls
          /\ storageCalls' = 0
          /\ readerArgs' = None
          /\ writes' = <<>>
          /\ channels' = storeBefore'.channels
          /\ stats' = storeBefore'.stats]_vars

(* A refresh whose second search call failed, after a page was fetched and
   resolved, answered, over a store that is not empty *)
UpstreamFailureAbortsWitness ==
    /\ IsSome(failure)
    /\ Val(failure).api = "search"
    /\ Len(collected) > 0
    /\ searchCalls = 2
    /\ IsSome(response)
    /\ channels = ScenarioStore.channels
    /\ stats = ScenarioStore.stats

(* C15: while a GET is handled and when it has been answered, with success or
   with an error, no search or details call has been issued, nothing has been
   upserted and both projections are as they were before the request. *)
ReadNeverWrites ==
    (IsSome(req) /\ Val(req).method = "GET") =>
        /\ searchCalls = 0
        /\ detailCalls = 0
        /\ writes = <<>>
        /\ channels = storeBefore.channels
        /\ stats = storeBefore.stats
        /\ pc \in {"awaitRead", "done"}

(* A GET answered with a page of the three-record store *)
ReadNeverWritesWitness ==
    /\ IsSome(req)
    /\ Val(req).method = "GET"
    /\ Answered(200)
    /\ Len(Val(response).items) > 0
    /\ storageCalls = 1
    /\ channels = ScenarioStore.channels

(* C17: when the upsert into channels of a refresh succeeded and its upsert
   into channel_stats failed, the refresh is answered with status 500, the
   identity rows it wrote are in the store, and the statistics projection is
   as it was before the request. *)
StatsUpsertFailed ==
    /\ IsSome(req)
    /\ pc = "done"
    /\ writes # <<>>
    /\ \A i \in 1..Len(writes) : writes[i].table = "channels"

PartialSyncStays ==
    StatsUpsertFailed =>
        /\ Answered(500)
        /\ Val(response).error # NoMessage
        /\ \A i \in 1..Len(result) :
              /\ result[i].id \in DOMAIN channels
              /\ channels[result[i].id] = ChannelRow(result[i])
        /\ stats = storeBefore.stats

(* New identity values beside the old statistics of the same channels *)
PartialSyncStaysWitness ==
    /\ StatsUpsertFailed
    /\ Answered(500)
    /\ stats = ScenarioStore.stats
    /\ \A i \in 1..Len(result) : channels[result[i].id] # storeBefore.channels[result[i].id]

(* An upsert or the read of a refresh failed after its discovery run returned *)
SyncOrReadFailed ==
    /\ IsSome(req)
    /\ Val(req).method = "POST"
    /\ failure = None
    /\ pc = "done"
    /\ storageCalls >= 1
    /\ \/ readerArgs = None
       \/ IsSome(readResult) /\ ~Val(readResult).ok

(* C18: when the discovery run of a refresh succeeded and an upsert or the
   read failed, the response is an error with status 500 and a message, with
   no refreshed count and no items. *)
FailureHidesFetched ==
    SyncOrReadFailed =>
        /\ Answered(500)
        /\ Val(response).error # NoMessage
        /\ Val(response).refreshed = None
        /\ Val(response).items = <<>>

(* The read failed after two fetched records were synced *)
FailureHidesFetchedWitness ==
    /\ SyncOrReadFailed
    /\ IsSome(readResult)
    /\ Len(result) = 2
    /\ Len(writes) = 4
    /\ Answered(500)

----------------------------------------------------------------------------
(* Claims about overlapping requests (checked under SpecSync) *)

(* C16: no step of a request, read or refresh, answered, failed or overlapping
   another, removes a record: the identifiers of each projection stay or
   grow. *)
StoreOnlyGrows ==
    [][/\ DOMAIN channels \subseteq DOMAIN channels'
       /\ DOMAIN stats \subseteq DOMAIN stats']_vars

(* Two overlapping refreshes, one of them failed, over the three-record store:
   its records are all there. *)
StoreOnlyGrowsWitness ==
    /\ pc = "done"
    /\ peer.pc = "done"
    /\ Answered(500)
    /\ \E i \in 1..Len(writes) : writes[i].by = "request"
    /\ \E i \in 1..Len(writes) : writes[i].by = "peer"
    /\ DOMAIN storeBefore.channels = 1..3
    /\ DOMAIN channels = 1..3
    /\ DOMAIN stats = 1..3

(* The rows upserted into `table` under `key` since the store was at rest *)
WritesTo(table, key) ==
    {i \in 1..Len(writes) : writes[i].table = table /\ writes[i].key = key}

(* The row of `key` holds the last value upserted under it, or, if none was,
   what it held (or lacked) when the store was at rest. *)
RowIsLastWrite(name, table, before, key) ==
    LET ws == WritesTo(name, key)
    IN  IF ws = {}
        THEN /\ key \in DOMAIN table <=> key \in DOMAIN before
             /\ key \in DOMAIN table => table[key] = before[key]
        ELSE /\ key \in DOMAIN table
             /\ table[key] = writes[CHOOSE i \in ws : \A j \in ws : j <= i].row

BothSynced ==
    /\ pc \in {"awaitRead", "done"}
    /\ peer.pc = "done"
    /\ Len(result) > 0
    /\ Len(writes) = 2 * Len(result) + 2 * Len(peer.result)

(* The store after one refresh that fetched `list`, from the store `before` *)
AfterOneRefresh(before, list) ==
    [channels |-> [id \in DOMAIN before.channels \cup Range(IdsOf(list)) |->
                      IF id \in Range(IdsOf(list))
                      THEN ChannelRow(list[IndexOf(IdsOf(list), id)])
                      ELSE before.channels[id]],
     stats |-> [id \in DOMAIN before.stats \cup Range(IdsOf(list)) |->
                      IF id \in Range(IdsOf(list))
                      THEN StatsRow(list[IndexOf(IdsOf(list), id)])
                      ELSE before.stats[id]]]

(* C19: in every interleaving of the upserts of two overlapping refreshes each
   row of each projection holds the last value upserted under its key (or its
   value before, if none was); and when both synced the same records, the
   store is the store after one refresh. *)
LastWriteWins ==
    /\ \A key \in DOMAIN channels \cup DOMAIN storeBefore.channels
                   \cup {writes[i].key : i \in 1..Len(writes)} :
          /\ RowIsLastWrite("channels", channels, storeBefore.channels, key)
          /\ RowIsLastWrite("channel_stats", stats, storeBefore.stats, key)
    /\ (BothSynced /\ peer.result = result) =>
          [channels |-> channels, stats |-> stats] = AfterOneRefresh(storeBefore, result)

(* Both refreshes are through; the overlapping one upserted its channels row
   of channel 2 after the request upserted another, and its statistics row
   before the request's. *)
LastWriteWinsWitness ==
    /\ BothSynced
    /\ pc = "done"
    /\ Len(result) = 2
    /\ Len(peer.result) = 1
    /\ [i \in 1..Len(writes) |-> writes[i].by] =
            <<"request", "request", "peer", "peer", "request", "request">>
    /\ writes[2].key = 2 /\ writes[3].key = 2
    /\ writes[2].row # writes[3].row
    /\ channels[2] = writes[3].row

----------------------------------------------------------------------------
(* Claims about the end of a discovery run (checked under SpecFetchFair) *)

Ended == pc \in {"returned", "failed"}

(* The loop was left at its head: the last search response had a cursor and
   the accumulator holds resultCap records *)
EndedAtCap == pc = "returned" /\ IsSome(nextPageToken) /\ Len(collected) >= resultCap

(* The loop was left at its break: the last search response had no cursor *)
EndedExhausted == pc = "returned" /\ nextPageToken = None /\ pageToken = None

(* The run threw: a call returned a response that was not ok *)
EndedOnFailure ==
    pc = "failed" /\ IsSome(failure) /\ Val(failure).status \in HttpErrors

FetchEndReason ==
    /\ Ended =>
          /\ EndedAtCap \/ EndedExhausted \/ EndedOnFailure
          /\ ~(EndedAtCap /\ EndedExhausted)
          /\ ~(EndedAtCap /\ EndedOnFailure)
          /\ ~(EndedExhausted /\ EndedOnFailure)
    /\ ~Ended =>
          /\ failure = None
          /\ Len(collected) < resultCap
          /\ searchCalls > 1 => IsSome(searchReq.pageToken)
    /\ searchCalls <= MaxCalls

(* C25: a discovery run against endpoints that answer every call, the search
   endpoint without continuation cursor after finitely many pages, ends; and
   it ends in exactly one of three ways: at the loop head with the accumulator
   at resultCap, at the break after a search response without cursor, or by
   the error thrown for a response that is not ok; while none of the three
   has happened the run goes on. *)
FetchTerminates == <>Ended /\ []FetchEndReason

(* A run that ended at the cap after two pages, the second of which still
   had a cursor *)
FetchTerminatesWitness ==
    /\ EndedAtCap
    /\ resultCap = 2
    /\ searchCalls = 2
    /\ detailCalls = 2
    /\ Len(result) = 2

----------------------------------------------------------------------------
(* Claims about the rows of a sync (checked under Spec) *)

(* A refresh whose discovery run returned and whose upserts, if it had rows
   to send, both succeeded *)
SyncSucceeded ==
    /\ IsSome(req)
    /\ Val(req).method = "POST"
    /\ failure = None
    /\ storageCalls >= 1
    /\ pc \in {"awaitRead", "done"}
    /\ Len(writes) = 2 * Len(result)

(* C22: after a successful sync the identity row and the statistics row of
   every fetched id are the projections of the fetched record, field by field
   (a field the record lacks is absent in the row, whatever the row held
   before), and the rows of every other id are the rows the store held before
   the request, none added and none removed. *)
SyncReplacesRows ==
    SyncSucceeded =>
        /\ \A i \in 1..Len(result) :
              LET id == result[i].id
              IN  /\ id \in DOMAIN channels /\ id \in DOMAIN stats
                  /\ channels[id] = ChannelRow(result[i])
                  /\ stats[id] = StatsRow(result[i])
                  /\ channels[id].custom_url = result[i].customUrl
                  /\ channels[id].thumbnail_url = result[i].thumbnailUrl
                  /\ channels[id].country = result[i].country
                  /\ channels[id].etag = result[i].etag
                  /\ stats[id].subscriber_count = result[i].subscriberCount
                  /\ stats[id].view_count = result[i].viewCount
                  /\ stats[id].video_count = result[i].videoCount
        /\ DOMAIN channels = DOMAIN storeBefore.channels \cup Range(IdsOf(result))
        /\ DOMAIN stats = DOMAIN storeBefore.stats \cup Range(IdsOf(result))
        /\ \A id \in DOMAIN channels \ Range(IdsOf(result)) :
              channels[id] = storeBefore.channels[id]
        /\ \A id \in DOMAIN stats \ Range(IdsOf(result)) :
              stats[id] = storeBefore.stats[id]

(* Channel 2 is fetched without custom URL and without country into a store
   that held both for it: both are absent afterwards, and the rows of
   channel 3, which was not fetched, are as before. *)
SyncReplacesRowsWitness ==
    /\ SyncSucceeded
    /\ Answered(200)
    /\ storeBefore = ScenarioStore
    /\ IdsOf(result) = <<1, 2>>
    /\ IsSome(storeBefore.channels[2].custom_url) /\ channels[2].custom_url = None
    /\ IsSome(storeBefore.channels[2].country) /\ channels[2].country = None
    /\ stats[2] # storeBefore.stats[2]
    /\ channels[3] = ScenarioStore.channels[3]
    /\ stats[3] = ScenarioStore.stats[3]

----------------------------------------------------------------------------
(* Claims about the two projections together (checked under SpecSync) *)

(* C26: in every state that refresh requests reach from the empty store, one
   after the other or overlapping, with upserts that fail at either step,
   every row of the statistics projection has a row with the same id in the
   identity projection. *)
StatsHaveIdentity ==
    \A id \in DOMAIN stats :
        /\ stats[id].channel_id = id
        /\ id \in DOMAIN channels
        /\ channels[id].id = id

(* From the empty store: the request wrote the identity rows of channels 1
   and 2 and its statistics upsert failed; the overlapping request wrote both
   rows of channel 2. Channel 1 has an identity row only. *)
StatsHaveIdentityWitness ==
    /\ storeBefore = EmptyStore
    /\ pc = "done"
    /\ Answered(500)
    /\ \E i \in 1..Len(writes) : writes[i].by = "request"
    /\ \A i \in 1..Len(writes) : writes[i].by = "request" => writes[i].table = "channels"
    /\ \E i \in 1..Len(writes) : writes[i].by = "peer" /\ writes[i].table = "channel_stats"
    /\ peer.pc = "done"
    /\ DOMAIN channels = {1, 2}
    /\ DOMAIN stats = {2}

----------------------------------------------------------------------------
(* Claims about pages without candidates (checked under SpecFetch) *)

(* C20: when a search response yields no new candidate, no details call is
   issued for it and nothing is collected; without a continuation cursor the
   run returns, and with one the next search call is issued with that cursor
   (the cursor of the response to call n is ToString(n)). *)
EmptyPageSkipsDetails ==
    [][(pc = "awaitSearch" /\ failure' = None /\ seen' = seen) =>
          /\ detailCalls' = detailCalls
          /\ lookedUp' = lookedUp
          /\ collected' = collected
          /\ IF pageToken' = None
             THEN /\ pc' = "returned"
                  /\ searchCalls' = searchCalls
                  /\ result' = collected
             ELSE /\ pageToken' = Some(ToString(searchCalls))
                  /\ pc' = "awaitSearch"
                  /\ searchCalls' = searchCalls + 1
                  /\ searchReq'.pageToken = pageToken']_vars

(* The second page named only the channel of the first page; the third search
   call is out with the cursor of the second page, after one details call. *)
EmptyPageSkipsDetailsWitness ==
    /\ pc = "awaitSearch"
    /\ searchCalls = 3
    /\ detailCalls = 1
    /\ appeared = <<1>>
    /\ "seenAgain" \in notes
    /\ searchReq.pageToken = Some("2")

(* C21, as stated: a details call is out only after a search call, with at
   least one and at most min(chunkSize, remaining) identifiers. *)
DetailsWithinChunk ==
    /\ detailCalls <= searchCalls
    /\ pc = "awaitDetails" =>
          /\ Len(candidateIds) >= 1
          /\ Len(candidateIds) <= Min(chunkSize, resultCap - Len(collected))

(* The step that sends a details call: it is taken on the answer to a search
   call, sends no new search call, and asks for candidates that were not seen
   before, which are seen from then on. *)
SendsDetails ==
    detailCalls' # detailCalls =>
        /\ pc = "awaitSearch" /\ pc' = "awaitDetails"
        /\ detailCalls' = detailCalls + 1
        /\ searchCalls' = searchCalls
        /\ candidateIds' # <<>>
        /\ NoDuplicates(candidateIds')
        /\ Range(candidateIds') \cap seen = {}
        /\ seen' = seen \cup Range(candidateIds')
        /\ Range(candidateIds') \subseteq Range(appeared')
        /\ lookedUp' = lookedUp \o candidateIds'
        /\ Len(candidateIds') < resultCap - Len(collected) =>
               Range(appeared') \ Range(appeared) \subseteq Range(candidateIds')

(* The step that sends a search call: it is taken on the answer to the call
   that was out, sends no details call, and at most one details call was sent
   since the search call before. *)
SendsSearch ==
    searchCalls' # searchCalls =>
        /\ pc \in {"awaitSearch", "awaitDetails"} /\ pc' = "awaitSearch"
        /\ searchCalls' = searchCalls + 1
        /\ detailCalls' = detailCalls

(* C21: in a discovery run the details calls never outnumber the search calls;
   a details call is sent on the answer to a search call that named at least
   one new candidate and asks for exactly the new candidates of that page, at
   most remaining of them, and at most min(chunkSize, remaining) when the page
   held no more items than the search call asked for; one call is out at a
   time. *)
DetailsFollowSearch ==
    /\ [](/\ detailCalls <= searchCalls
          /\ pc = "awaitDetails" =>
                /\ Len(candidateIds) >= 1
                /\ Len(candidateIds) <= resultCap - Len(collected)
                /\ "overlong" \notin notes =>
                       Len(candidateIds) <= Min(chunkSize, resultCap - Len(collected)))
    /\ [][SendsDetails /\ SendsSearch]_vars

(* The second details call of a run is out after three search calls, the
   page in between having named no new channel; no page was longer than
   asked for. *)
DetailsFollowSearchWitness ==
    /\ pc = "awaitDetails"
    /\ searchCalls = 3
    /\ detailCalls = 2
    /\ "overlong" \notin notes
    /\ "seenAgain" \in notes
    /\ Len(lookedUp) = 2

----------------------------------------------------------------------------
(* Claims about the page parameter (checked under SpecPage) *)

(* The page parameter is a number of at least 1 *)
PageGiven(value) == IsNumber(value) /\ value.twice >= 2

(* C24, as stated: a page parameter that is a number above zero is used as
   given. *)
PageUsedAsGiven ==
    (IsSome(req) /\ IsNumber(Val(req).page) /\ Val(req).page.twice > 0) =>
        2 * page = Val(req).page.twice

(* C24: the page parameter never causes a validation error: a request is
   answered 400 only when its bounds fail validation; a page that is missing,
   empty, no number or below 1 is treated as page 1 and any other is rounded
   down to a whole number (a whole number of at least 1 is used as given);
   the page passed to the Reader and echoed in the response is that whole
   number, at least 1, and the offset (page - 1) * pageSize is never
   negative. *)
PageNeverRejects ==
    IsSome(req) =>
        LET raw == Val(req).page
        IN  /\ page = (IF PageGiven(raw) THEN raw.twice \div 2 ELSE 1)
            /\ (PageGiven(raw) /\ raw.twice % 2 = 0) => 2 * page = raw.twice
            /\ page \in Nat /\ page >= 1
            /\ Answered(400) <=> (pc = "done" /\ FailsValidation(Val(req)))
            /\ IsSome(readerArgs) =>
                  /\ Val(readerArgs).page = page
                  /\ (Val(readerArgs).page - 1) * Val(readerArgs).pageSize >= 0
            /\ Answered(200) => Val(response).page = page

(* A request for page 2.5 is answered with page 2, read at offset 30 *)
PageNeverRejectsWitness ==
    /\ IsSome(req)
    /\ Val(req).page = Num(5)
    /\ Answered(200)
    /\ Val(response).page = 2
    /\ (Val(readerArgs).page - 1) * Val(readerArgs).pageSize = PAGE_SIZE

----------------------------------------------------------------------------
(* Claims about hidden subscriber counts (checked under SpecRefresh) *)

(* The details endpoint marks the subscriber count of channel id as hidden *)
IsHidden(id) == DetailItem(Some(id), 1).hiddenSubscriberCount

(* Subscriber values a details item can carry beside the flag *)
HiddenRaws == {RawAbsent, RawBlank, RawText, RawNum(0), RawNum(3000)}

(* Ranges asked of the Reader, the widest and the one of zero alone among
   them *)
HiddenRanges == ReadRanges \cup {<<0, 0>>, <<0, 5000>>}

(* C23: a details item with the hidden-subscriber flag maps to a record
   without subscriber count and to a statistics row without one (not a row
   with zero), whatever subscriber value the item carries; and after a
   refresh that fetched such a channel its statistics row holds no count,
   whatever it held before, and the Reader returns the channel for no range
   and no page, with the title filter or without, and the response of the
   refresh does not list it. *)
HiddenIsAbsent ==
    /\ \A raw \in HiddenRaws :
          LET item == [DetailItem(Some(3), 1) EXCEPT !.hiddenSubscriberCount = TRUE,
                                                     !.subscriberCount = raw]
          IN  /\ MapDetailItem(item).subscriberCount = None
              /\ StatsRow(MapDetailItem(item)).subscriber_count = None
              /\ StatsRow(MapDetailItem(item)).subscriber_count # Some(0)
    /\ SyncSucceeded =>
          \A i \in 1..Len(result) :
              IsHidden(result[i].id) =>
                  /\ result[i].subscriberCount = None
                  /\ stats[result[i].id].subscriber_count = None
                  /\ \A range \in HiddenRanges, pg \in 1..MaxPage, filtered \in BOOLEAN :
                        result[i].id \notin
                            Range(IdsOf(Reader(channels, stats, range[1], range[2], pg,
                                               pageSize, filtered).items))
                  /\ Answered(200) => result[i].id \notin Range(IdsOf(Val(response).items))

(* The store held 5000 subscribers for channel 3; a refresh fetched channels
   1 to 3, channel 3 with the hidden flag beside a count of 3000; the
   response lists channels 1 and 2 only, and the row of channel 3 holds no
   count. *)
HiddenIsAbsentWitness ==
    /\ SyncSucceeded
    /\ Answered(200)
    /\ storeBefore = ScenarioStore
    /\ storeBefore.stats[3].subscriber_count = Some(5000)
    /\ IdsOf(result) = <<1, 2, 3>>
    /\ IsHidden(3)
    /\ DetailItem(Some(3), 3).subscriberCount = RawNum(3000)
    /\ stats[3].subscriber_count = None
    /\ IdsOf(Val(response).items) = <<1, 2>>

----------------------------------------------------------------------------
(* Claims about the refreshed count (checked under SpecRefresh) *)

(* The least number of pages of at most `size` that hold n items, and at
   least one *)
PagesFor(n, size) == IF n = 0 THEN 1 ELSE (n + size - 1) \div size

(* C14: against a source of U different candidates, all of them resolved by
   the details endpoint, a successful refresh reports refreshed =
   min(U, resultCap) after as many search calls as pages of chunkSize hold
   that many; and no search call is out while the accumulator is at
   resultCap. *)
RefreshedIsMin ==
    /\ pc = "awaitSearch" => Len(collected) < resultCap
    /\ (IsSome(req) /\ Answered(200) /\ dropped = {}) =>
          /\ Val(response).refreshed = Some(Min(source, resultCap))
          /\ searchCalls = PagesFor(Min(source, resultCap), chunkSize)

(* Cap 100, chunk size 50, 120 candidates: refreshed = 100 after two search
   calls *)
RefreshedIsMinWitness ==
    /\ resultCap = MAX_RESULTS
    /\ chunkSize = CHUNK_SIZE
    /\ source = 120
    /\ dropped = {}
    /\ Answered(200)
    /\ Val(response).refreshed = Some(100)
    /\ searchCalls = 2
    /\ Cardinality(DOMAIN channels) >= 100

====
